---- MODULE Spec2Model ----
(***************************************************************************)
(* Model of neonix/io/nixio.py: the NixIO writer (write_block,             *)
(* write_segment) and the mapping-driven comparison NixIO._equals.         *)
(*                                                                         *)
(* A Python object is a function from the names of the attributes it has   *)
(* to their values, so that getattr(obj, name, None) can tell a missing    *)
(* attribute from a present one.  The NIX file is the sequence of its      *)
(* blocks; every block carries the sequence of its groups.                 *)
(***************************************************************************)
EXTENDS Integers, Sequences, FiniteSets, TLC

VARIABLES store, handles, last, eqIn, eqOut

vars == <<store, handles, last, eqIn, eqOut>>

(***************************************************************************)
(* Bounds of the model.                                                    *)
(***************************************************************************)
MaxSegments == 2
MaxRoots == 2
MaxCalls == 1
MaxChildren == 1

(***************************************************************************)
(* Python values.  None, strings and lists are tagged so that any two      *)
(* values can be compared, as Python's == and "is None" can.               *)
(***************************************************************************)
None == [none |-> TRUE]

Str(s) == [str |-> s]

List(q) == [list |-> q]

(***************************************************************************)
(* The mapping tables, in the order of the dictionary literals.            *)
(***************************************************************************)
attribute_mappings_same_name == << <<"name", "name">>, <<"description", "description">> >>

attribute_mappings_name_only == << <<"name", "name">> >>

attribute_mappings == << <<"name", "name">>, <<"description", "definition">> >>

container_mappings == << <<"segments", "groups">> >>

(* getattr(obj, name, None) *)
GetAttr(obj, name) == IF name \in DOMAIN obj THEN obj[name] ELSE None

(***************************************************************************)
(* NixIO._equals.  The result is "true", "false", or "TypeError" when      *)
(* len() is applied to None.                                               *)
(***************************************************************************)
ChildCascadeOff == FALSE

(* the cascade argument of the recursive call: omitted, hence the default *)
ChildCascade == TRUE

RECURSIVE AttributesEqual(_, _, _)
(* the loop over attribute_mappings.items(), from entry k *)
AttributesEqual(neo_obj, nix_obj, k) ==
    IF k > Len(attribute_mappings) THEN TRUE
    ELSE LET neo_attr == GetAttr(neo_obj, attribute_mappings[k][1])
             nix_attr == GetAttr(nix_obj, attribute_mappings[k][2])
         IN IF neo_attr # nix_attr THEN FALSE
            ELSE AttributesEqual(neo_obj, nix_obj, k + 1)

(* neo_container is nix_container is None *)
BothNone(neo_container, nix_container) ==
    neo_container = nix_container /\ nix_container = None

RECURSIVE _equals(_, _, _)
RECURSIVE ChildrenEqual(_, _, _)
RECURSIVE ContainersEqual(_, _, _)

(* the loop over zip(neo_container, nix_container), from position i *)
ChildrenEqual(neo_container, nix_container, i) ==
    IF i > Len(neo_container.list) \/ i > Len(nix_container.list) THEN "true"
    ELSE LET r == _equals(neo_container.list[i], nix_container.list[i], ChildCascade)
         IN IF r = "true" THEN ChildrenEqual(neo_container, nix_container, i + 1)
            ELSE r

(* the loop over container_mappings.items(), from entry k *)
ContainersEqual(neo_obj, nix_obj, k) ==
    IF k > Len(container_mappings) THEN "true"
    ELSE LET neo_container == GetAttr(neo_obj, container_mappings[k][1])
             nix_container == GetAttr(nix_obj, container_mappings[k][2])
         IN IF BothNone(neo_container, nix_container)
            THEN ContainersEqual(neo_obj, nix_obj, k + 1)
            ELSE IF neo_container = None \/ nix_container = None
                 THEN "TypeError"
                 ELSE IF Len(neo_container.list) # Len(nix_container.list)
                      THEN "false"
                      ELSE LET r == ChildrenEqual(neo_container, nix_container, 1)
                           IN IF r = "true"
                              THEN ContainersEqual(neo_obj, nix_obj, k + 1)
                              ELSE r

_equals(neo_obj, nix_obj, cascade) ==
    IF ~AttributesEqual(neo_obj, nix_obj, 1) THEN "false"
    ELSE IF cascade THEN ContainersEqual(neo_obj, nix_obj, 1)
         ELSE "true"

(***************************************************************************)
(* The NIX file as write_block and write_segment use it.                   *)
(***************************************************************************)
openKeepsContent(file, mode) == file

(* nix.File.open(self.filename, mode): Overwrite starts from an empty file *)
open(file, mode) == IF mode = "Overwrite" THEN <<>> ELSE file

closeForgotten(h) == h

(* nix_file.close() *)
close(h) == h - 1

(* nix_file.create_block(nix_name, nix_type) *)
create_block(nix_name, nix_type) ==
    [name |-> nix_name, type |-> nix_type, definition |-> None,
     groups |-> List(<<>>)]

create_groupInFront(nix_block, nix_name, nix_type, nix_definition) ==
    [nix_block EXCEPT !.groups = List(
        <<[name |-> nix_name, type |-> nix_type, definition |-> nix_definition]>>
        \o @.list)]

(* nix_block.create_group(nix_name, nix_type); nix_group.definition = ... *)
create_group(nix_block, nix_name, nix_type, nix_definition) ==
    [nix_block EXCEPT !.groups = List(Append(@.list,
        [name |-> nix_name, type |-> nix_type, definition |-> nix_definition]))]

RECURSIVE FirstMatch(_, _, _)
(* the position of the first block of the file that _equals accepts, from *)
(* position i; 0 when the loop runs to its else branch                    *)
FirstMatch(file, parent_block, i) ==
    IF i > Len(file) THEN 0
    ELSE IF _equals(parent_block, file[i], FALSE) = "true" THEN i
         ELSE FirstMatch(file, parent_block, i + 1)

(* nix_block = nix_file.blocks[0]: the block the group is created in, *)
(* given the position m of the matched block                           *)
SelectedBlock(m) == 1

(* write_segment on a file with h handles open *)
write_segment(file, h, segment, parent_block) ==
    LET nix_name == segment.name
        nix_type == "neo.segment"
        nix_definition == segment.description
        nix_file == open(file, "ReadWrite")
        m == FirstMatch(nix_file, parent_block, 1)
    IN IF m = 0
       THEN [store |-> nix_file, handles |-> h + 1, outcome |-> "LookupError"]
       ELSE [store |-> [nix_file EXCEPT ![SelectedBlock(m)] =
                           create_group(@, nix_name, nix_type, nix_definition)],
             handles |-> close(h + 1), outcome |-> "ok"]

RECURSIVE WriteSegments(_, _, _, _)
(* for segment in neo_block.segments: self.write_segment(segment, neo_block) *)
(* from position i; an exception ends the loop                               *)
WriteSegments(file, h, neo_block, i) ==
    IF i > Len(neo_block.segments.list)
    THEN [store |-> file, handles |-> h, outcome |-> "ok"]
    ELSE LET r == write_segment(file, h, neo_block.segments.list[i], neo_block)
         IN IF r.outcome = "ok"
            THEN WriteSegments(r.store, r.handles, neo_block, i + 1)
            ELSE r

BlockDefinitionFromName(neo_block) == neo_block.name

(* nix_definition = neo_block.description *)
BlockDefinition(neo_block) == neo_block.description

(* write_block on a file with h handles open *)
write_block(file, h, neo_block, cascade) ==
    LET nix_name == neo_block.name
        nix_type == "neo.block"
        nix_definition == BlockDefinition(neo_block)
        nix_file == open(file, "Overwrite")
        nix_block == [create_block(nix_name, nix_type)
                         EXCEPT !.definition = nix_definition]
        written == Append(nix_file, nix_block)
        r == IF cascade THEN WriteSegments(written, h + 1, neo_block, 1)
             ELSE [store |-> written, handles |-> h + 1, outcome |-> "ok"]
    IN IF r.outcome = "ok" THEN [r EXCEPT !.handles = close(@)] ELSE r

(***************************************************************************)
(* The inputs: Neo blocks and segments, and the prior content of the file. *)
(***************************************************************************)
SeqsUpTo(S, n) == UNION {[1..k -> S] : k \in 0..n}

BlockNames == {Str("b1"), Str("b2")}

Descriptions == {None, Str("d")}

Segments == {[name |-> Str("s1"), description |-> Str("x")],
             [name |-> Str("s2"), description |-> None]}

Blocks ==
    {[name |-> n, description |-> d, segments |-> List(q)] :
        n \in BlockNames, d \in Descriptions, q \in SeqsUpTo(Segments, MaxSegments)}

(* the blocks write_segment is given as the parent of segment s *)
ParentBlocks(s) == {b \in Blocks : b.segments.list \in {<<>>, <<s>>}}

PriorGroup == [name |-> Str("s0"), type |-> "neo.segment", definition |-> Str("d")]

PriorBlocks ==
    {[name |-> n, type |-> "neo.block", definition |-> d, groups |-> List(<<PriorGroup>>)] :
        n \in BlockNames, d \in Descriptions}

PriorStores == SeqsUpTo(PriorBlocks, MaxRoots)

(***************************************************************************)
(* The writer: a file with some prior content, and calls of write_block    *)
(* and write_segment on it.  last records the latest call: its arguments,  *)
(* the file and the open handles before it, how it ended, and the number n *)
(* of calls made so far.                                                   *)
(***************************************************************************)
Init ==
    /\ store \in PriorStores
    /\ handles = 0
    /\ last = [op |-> "none", n |-> 0]
    /\ eqIn = None
    /\ eqOut = "idle"

WriteBlock ==
    /\ last.n < MaxCalls
    /\ \E neo_block \in Blocks, cascade \in BOOLEAN :
        LET r == write_block(store, handles, neo_block, cascade)
        IN /\ store' = r.store
           /\ handles' = r.handles
           /\ last' = [op |-> "write_block", n |-> last.n + 1,
                       block |-> neo_block, cascade |-> cascade,
                       outcome |-> r.outcome,
                       pre |-> store, preHandles |-> handles]
           /\ UNCHANGED <<eqIn, eqOut>>

WriteSegment ==
    /\ last.n < MaxCalls
    /\ \E segment \in Segments :
         \E parent_block \in ParentBlocks(segment) :
            LET r == write_segment(store, handles, segment, parent_block)
            IN /\ store' = r.store
               /\ handles' = r.handles
               /\ last' = [op |-> "write_segment", n |-> last.n + 1,
                           segment |-> segment, block |-> parent_block,
                           outcome |-> r.outcome,
                           pre |-> store, preHandles |-> handles]
               /\ UNCHANGED <<eqIn, eqOut>>

Next == WriteBlock \/ WriteSegment

Spec == Init /\ [][Next]_vars

(***************************************************************************)
(* The comparison on its own: the two objects and the cascade flag are     *)
(* drawn from bounded sets and _equals is applied to them.  The objects    *)
(* here are any objects: a mapped attribute or a mapped container may be   *)
(* missing on either side, or be None.                                     *)
(***************************************************************************)
(* the records over the fields of base extended by field f with a value of V *)
WithOptional(base, f, V) == base \cup {b @@ (f :> v) : b \in base, v \in V}

AttrValues == {None, Str("a")}

NeoLeaves == {[name |-> Str("a")], [name |-> Str("b")]}

NixLeaves == {[name |-> Str("a")], [name |-> Str("b")]}

NeoChildren ==
    WithOptional({[name |-> Str("a")], [name |-> Str("b")]}, "segments",
                 {List(<<>>)} \cup {List(<<l>>) : l \in NeoLeaves})

NixChildren ==
    WithOptional({[name |-> Str("a")], [name |-> Str("b")]}, "groups",
                 {List(<<>>)} \cup {List(<<l>>) : l \in NixLeaves})

NeoObjects ==
    WithOptional(
        WithOptional(WithOptional({<<>>}, "name", AttrValues),
                     "description", AttrValues),
        "segments", {List(q) : q \in SeqsUpTo(NeoChildren, MaxChildren)})

NixObjects ==
    WithOptional(
        WithOptional(WithOptional({<<>>}, "name", AttrValues),
                     "definition", AttrValues),
        "groups", {List(q) : q \in SeqsUpTo(NixChildren, MaxChildren)})

InitEq ==
    /\ store = <<>>
    /\ handles = 0
    /\ last = [op |-> "none", n |-> 0]
    /\ eqIn \in [neo_obj : NeoObjects, nix_obj : NixObjects, cascade : BOOLEAN]
    /\ eqOut = "pending"

Compare ==
    /\ eqOut = "pending"
    /\ eqOut' = _equals(eqIn.neo_obj, eqIn.nix_obj, eqIn.cascade)
    /\ UNCHANGED <<store, handles, last, eqIn>>

NextEq == Compare

SpecEq == InitEq /\ [][NextEq]_vars

(***************************************************************************)
(* Properties of the writer, under Spec.                                   *)
(***************************************************************************)
(* a Neo block and a NIX block with equal name and description/definition *)
AttributeEquivalent(neo_block, nix_block) ==
    /\ neo_block.name = nix_block.name
    /\ neo_block.description = nix_block.definition

(* C1: after write_block(C, cascade=false), whatever the file held before, *)
(* the file holds exactly one block; it has C's name, C's description as   *)
(* its definition, and no groups.                                          *)
C1_BlockAloneReplacesFile ==
    (last.op = "write_block" /\ ~last.cascade) =>
        /\ Len(store) = 1
        /\ store[1].name = last.block.name
        /\ store[1].definition = last.block.description
        /\ Len(store[1].groups.list) = 0

C1_Witness ==
    /\ last.op = "write_block" /\ ~last.cascade
    /\ Len(last.pre) >= 2
    /\ Len(last.pre[1].groups.list) >= 1
    /\ Len(last.block.segments.list) >= 1
    /\ Len(store) = 1

(* C2: after write_block(C, cascade=true) of a block with one or more      *)
(* segments, the file's single block has as many groups as C has segments, *)
(* and the i-th group has the i-th segment's name, and its description as  *)
(* definition.                                                             *)
C2_CascadeWritesSegmentsInOrder ==
    (last.op = "write_block" /\ last.cascade
        /\ Len(last.block.segments.list) >= 1) =>
        /\ Len(store) = 1
        /\ Len(store[1].groups.list) = Len(last.block.segments.list)
        /\ \A i \in 1..Len(last.block.segments.list) :
              /\ store[1].groups.list[i].name = last.block.segments.list[i].name
              /\ store[1].groups.list[i].definition =
                     last.block.segments.list[i].description

C2_Witness ==
    /\ last.op = "write_block" /\ last.cascade
    /\ Len(last.block.segments.list) >= 2
    /\ last.block.segments.list[1] # last.block.segments.list[2]
    /\ Len(last.pre) >= 1
    /\ Len(store[1].groups.list) = Len(last.block.segments.list)

(* C3: write_segment with a parent that no block of the file is            *)
(* attribute-equivalent to ends with a LookupError and leaves the file's   *)
(* content as it was.                                                      *)
C3_MissingParentLeavesFile ==
    (last.op = "write_segment"
        /\ \A i \in 1..Len(last.pre) :
              ~AttributeEquivalent(last.block, last.pre[i])) =>
        /\ last.outcome = "LookupError"
        /\ store = last.pre

C3_Witness ==
    /\ last.op = "write_segment"
    /\ last.outcome = "LookupError"
    /\ Len(last.pre) >= 2
    /\ \E i \in 1..Len(last.pre) :
          /\ last.pre[i].name = last.block.name
          /\ last.pre[i].definition # last.block.description
    /\ store = last.pre

(* C4: the handle write_segment opens is closed when the call ends, on the *)
(* path that creates the group and on the path that raises LookupError.    *)
C4_SegmentHandleClosed ==
    last.op = "write_segment" => handles = last.preHandles

C6_GroupUnderMatchedBlock ==
    (last.op = "write_segment" /\ last.outcome = "ok") =>
        \E m \in 1..Len(last.pre) :
            /\ AttributeEquivalent(last.block, last.pre[m])
            /\ \A j \in 1..(m - 1) : ~AttributeEquivalent(last.block, last.pre[j])
            /\ Len(store) = Len(last.pre)
            /\ \A j \in 1..Len(store) : j # m => store[j] = last.pre[j]
            /\ store[m].name = last.pre[m].name
            /\ store[m].definition = last.pre[m].definition
            /\ Len(store[m].groups.list) = Len(last.pre[m].groups.list) + 1
            /\ SubSeq(store[m].groups.list, 1, Len(last.pre[m].groups.list))
                   = last.pre[m].groups.list
            /\ store[m].groups.list[Len(store[m].groups.list)].name
                   = last.segment.name
            /\ store[m].groups.list[Len(store[m].groups.list)].definition
                   = last.segment.description

(* C10: after write_block(C, cascade=true), for any number of segments and *)
(* any prior content, no nested write_segment raised, and _equals(C, r,    *)
(* cascade=true) is true for the single block r of the file.               *)
C10_WrittenBlockEqualsSource ==
    (last.op = "write_block" /\ last.cascade) =>
        /\ last.outcome = "ok"
        /\ Len(store) = 1
        /\ _equals(last.block, store[1], TRUE) = "true"

C10_Witness ==
    /\ last.op = "write_block" /\ last.cascade
    /\ last.outcome = "ok"
    /\ Len(last.block.segments.list) >= 2
    /\ Len(last.pre) >= 1
    /\ AttributeEquivalent(last.block, last.pre[1])
    /\ _equals(last.block, store[1], TRUE) = "true"

(***************************************************************************)
(* Properties of _equals, under SpecEq.                                    *)
(***************************************************************************)
(* the value of an attribute, a missing attribute counting as None *)
ValueOrNull(obj, name) == IF name \in DOMAIN obj THEN obj[name] ELSE None

MappedAttributesMatch(neo_obj, nix_obj) ==
    /\ ValueOrNull(neo_obj, "name") = ValueOrNull(nix_obj, "name")
    /\ ValueOrNull(neo_obj, "description") = ValueOrNull(nix_obj, "definition")

(* the object reduced to the attributes in names *)
Only(obj, names) == [a \in (DOMAIN obj) \cap names |-> obj[a]]

Compared == eqOut \in {"true", "false", "TypeError"}

(* C7: _equals(source, target, cascade=false) is true exactly when the     *)
(* names are equal and the description equals the definition, a missing    *)
(* attribute counting as None; the children of neither object matter.      *)
C7_ShallowEqualsIffAttributesMatch ==
    (Compared /\ ~eqIn.cascade) =>
        /\ eqOut \in {"true", "false"}
        /\ (eqOut = "true") <=> MappedAttributesMatch(eqIn.neo_obj, eqIn.nix_obj)
        /\ eqOut = _equals(Only(eqIn.neo_obj, {"name", "description"}),
                           Only(eqIn.nix_obj, {"name", "definition"}), FALSE)

C7_Witness ==
    /\ Compared /\ ~eqIn.cascade
    /\ eqOut = "true"
    /\ "name" \notin DOMAIN eqIn.neo_obj
    /\ "name" \in DOMAIN eqIn.nix_obj
    /\ "description" \in DOMAIN eqIn.neo_obj
    /\ eqIn.neo_obj["description"] # None
    /\ "segments" \in DOMAIN eqIn.neo_obj
    /\ "groups" \notin DOMAIN eqIn.nix_obj

(* C8: _equals(source, target, cascade=true) on objects whose mapped       *)
(* attributes match and of which exactly one has its mapped container      *)
(* returns false; it does not fail.                                        *)
C8_OneSidedContainerIsFalse ==
    (Compared /\ eqIn.cascade
        /\ MappedAttributesMatch(eqIn.neo_obj, eqIn.nix_obj)
        /\ ("segments" \in DOMAIN eqIn.neo_obj) # ("groups" \in DOMAIN eqIn.nix_obj)) =>
        eqOut = "false"

(* two objects that differ at most in what their children contain: the     *)
(* same attributes, and children with the same attributes at each position *)
SameButGrandchildren(o1, o2, container) ==
    /\ DOMAIN o1 = DOMAIN o2
    /\ Only(o1, {"name", "description", "definition"})
           = Only(o2, {"name", "description", "definition"})
    /\ container \in DOMAIN o1 =>
          /\ Len(o1[container].list) = Len(o2[container].list)
          /\ \A i \in 1..Len(o1[container].list) :
                Only(o1[container].list[i], {"name", "description", "definition"})
                    = Only(o2[container].list[i], {"name", "description", "definition"})

(* C9: the result of _equals(source, target, cascade=true) never depends   *)
(* on the children's children: inputs that differ only in grandchildren    *)
(* give the same result (stated for the calls that return a result).       *)
C9_GrandchildrenIgnored ==
    (Compared /\ eqIn.cascade /\ eqOut # "TypeError") =>
        \A n2 \in {o \in NeoObjects : SameButGrandchildren(eqIn.neo_obj, o, "segments")} :
            \A x2 \in {o \in NixObjects : SameButGrandchildren(eqIn.nix_obj, o, "groups")} :
                _equals(n2, x2, TRUE) \in {eqOut, "TypeError"}

RECURSIVE TreesMatch(_, _)
(* the mapped attributes match and the mapped containers are both missing, *)
(* or both there with equal lengths and children that match in turn        *)
TreesMatch(neo_obj, nix_obj) ==
    /\ MappedAttributesMatch(neo_obj, nix_obj)
    /\ LET neo_container == ValueOrNull(neo_obj, "segments")
           nix_container == ValueOrNull(nix_obj, "groups")
       IN IF neo_container = None \/ nix_container = None
          THEN neo_container = None /\ nix_container = None
          ELSE /\ Len(neo_container.list) = Len(nix_container.list)
               /\ \A i \in 1..Len(neo_container.list) :
                     TreesMatch(neo_container.list[i], nix_container.list[i])

(* C9 as amended: the children are compared by a cascading call, so        *)
(* _equals(source, target, cascade=true) is true exactly when attributes   *)
(* and containers match at every level, the children's children included.  *)
C9_CascadeReachesGrandchildren ==
    (Compared /\ eqIn.cascade) =>
        (eqOut = "true") <=> TreesMatch(eqIn.neo_obj, eqIn.nix_obj)

C9_Witness ==
    /\ Compared /\ eqIn.cascade
    /\ eqOut = "false"
    /\ MappedAttributesMatch(eqIn.neo_obj, eqIn.nix_obj)
    /\ "segments" \in DOMAIN eqIn.neo_obj /\ "groups" \in DOMAIN eqIn.nix_obj
    /\ Len(eqIn.neo_obj["segments"].list) = 1
    /\ Len(eqIn.nix_obj["groups"].list) = 1
    /\ MappedAttributesMatch(eqIn.neo_obj["segments"].list[1],
                             eqIn.nix_obj["groups"].list[1])
    /\ "segments" \in DOMAIN eqIn.neo_obj["segments"].list[1]
    /\ "groups" \in DOMAIN eqIn.nix_obj["groups"].list[1]
    /\ Len(eqIn.neo_obj["segments"].list[1]["segments"].list) = 1
    /\ Len(eqIn.nix_obj["groups"].list[1]["groups"].list) = 1

====
